---- MODULE Spec2Model ----
(***************************************************************************)
(* Model of the AIAgentSwarm orchestrator (agents/core/ai-agent-swarm.js): *)
(* the task builder, the bounded executor, the per-task race between the   *)
(* inference call and the timer, the result coordinator and the metrics.   *)
(*                                                                         *)
(* JavaScript runs each handler to completion between two awaits, so one   *)
(* action of the model is one such run-to-completion step: the synchronous *)
(* part of a call up to its first await, or the continuation that follows  *)
(* the settlement of an awaited promise.                                   *)
(***************************************************************************)
EXTENDS Integers, Sequences, FiniteSets, TLC

\* ---------------------------------------------------------------- bounds
\* largest concurrency ceiling passed to the constructor
MaxC == 2
\* analyzeRepositorySwarm is called with the first k analysis kinds, k <= MaxTypes
MaxTypes == 4
\* execution times (Date.now() - startTime) of an answered call: 1..MaxExecTime
MaxExecTime == 1
\* longest task list handed directly to executeSwarmTasks
MaxDirect == 3
\* in the runs that resetSwarm may interrupt, analyzeRepositorySwarm is called
\* with the first k kinds, k <= MaxResetTypes
MaxResetTypes == 2
\* number of calls of analyzeRepositorySwarm that may overlap on one swarm
MaxRuns == 2
\* longest list of kinds handed directly to createSwarmTasks
MaxRequestLen == 2
\* completion calls of one Qwen3Client that may be under way at once
MaxCallers == 2
\* completion calls made on one Qwen3Client
MaxRequests == 10

\* ---------------------------------------------------------- JS primitives
Undefined == "undefined"
Null == "null"

Range(s) == {s[i] : i \in DOMAIN s}

\* Array.prototype.includes
Includes(arr, x) == \E i \in DOMAIN arr : arr[i] = x

\* property read: a missing property reads as undefined
Get(obj, field) == IF field \in DOMAIN obj THEN obj[field] ELSE Undefined

\* Array.prototype.findIndex(t => t.id === key), 0-based, -1 when absent
FindIndexById(arr, key) ==
    IF \E i \in DOMAIN arr : arr[i] = key
    THEN (CHOOSE i \in DOMAIN arr :
              arr[i] = key /\ \A j \in DOMAIN arr : arr[j] = key => i <= j) - 1
    ELSE -1

\* Array.prototype.splice(start, 1), 0-based start; a negative start counts
\* from the end of the array
Splice1(arr, start) ==
    LET n == Len(arr)
        s == IF start < 0 THEN (IF n + start < 0 THEN 0 ELSE n + start)
             ELSE (IF start > n THEN n ELSE start)
    IN  IF s >= n THEN arr
        ELSE SubSeq(arr, 1, s) \o SubSeq(arr, s + 2, n)

\* Math.floor(x / 2)
FloorHalf(x) == x \div 2

\* Math.round(x / 2) for a non-negative integer x
RoundHalf(x) == (x + 1) \div 2

\* Math.round(a / b) for non-negative a and positive b
RoundDiv(a, b) == (2 * a + b) \div (2 * b)

\* ------------------------------------------------------------- registry
AgentIds == {"architect", "security", "performance", "quality", "testing", "documentation"}

\* an agent id that initializeAgents does not register
GhostAgent == "ghost"

initializeAgents ==
    [a \in AgentIds |->
        [status |-> "idle", tasksCompleted |-> 0, averageResponseTime |-> 0, successRate |-> 100]]

InitialEfficiency ==
    [a \in AgentIds |->
        [tasksAssigned |-> 0, tasksCompleted |-> 0, averageTime |-> 0, successRate |-> 100]]

InitialSwarmMetrics ==
    [totalTasks |-> 0, completedTasks |-> 0, failedTasks |-> 0, averageTaskTime |-> 0,
     agentEfficiency |-> InitialEfficiency]

\* ---------------------------------------------------------- task builder
KindOrder == <<"architecture", "security", "performance", "quality", "testing", "documentation">>

\* lines 129-199 with the security task carrying the prefix of the architecture task
TaskForSharingPrefix(kind) ==
    CASE kind = "architecture" ->
            [id |-> "arch", agentId |-> "architect", type |-> "architecture-analysis", priority |-> "high"]
      [] kind = "security" ->
            [id |-> "arch", agentId |-> "security", type |-> "security-analysis", priority |-> "high"]
      [] kind = "performance" ->
            [id |-> "perf", agentId |-> "performance", type |-> "performance-analysis", priority |-> "medium"]
      [] kind = "quality" ->
            [id |-> "qual", agentId |-> "quality", type |-> "quality-analysis", priority |-> "medium"]
      [] kind = "testing" ->
            [id |-> "test", agentId |-> "testing", type |-> "testing-analysis", priority |-> "low"]
      [] kind = "documentation" ->
            [id |-> "doc", agentId |-> "documentation", type |-> "documentation-analysis", priority |-> "low"]

\* lines 129-199: the id of a task is its prefix followed by Date.now(); the
\* prefix alone stands for it here, one call giving each prefix at most once
TaskFor(kind) ==
    CASE kind = "architecture" ->
            [id |-> "arch", agentId |-> "architect", type |-> "architecture-analysis", priority |-> "high"]
      [] kind = "security" ->
            [id |-> "sec", agentId |-> "security", type |-> "security-analysis", priority |-> "high"]
      [] kind = "performance" ->
            [id |-> "perf", agentId |-> "performance", type |-> "performance-analysis", priority |-> "medium"]
      [] kind = "quality" ->
            [id |-> "qual", agentId |-> "quality", type |-> "quality-analysis", priority |-> "medium"]
      [] kind = "testing" ->
            [id |-> "test", agentId |-> "testing", type |-> "testing-analysis", priority |-> "low"]
      [] kind = "documentation" ->
            [id |-> "doc", agentId |-> "documentation", type |-> "documentation-analysis", priority |-> "low"]

TaskIds == {TaskFor(KindOrder[i]).id : i \in DOMAIN KindOrder}

\* a push for every occurrence of the kind in the request
PushIfPerOccurrence(types, kind) ==
    [i \in 1..Cardinality({j \in DOMAIN types : types[j] \in {kind, "comprehensive"}}) |->
        TaskFor(kind)]

\* one `if (includes('comprehensive') || includes(kind)) tasks.push(...)`
PushIf(types, kind) ==
    IF Includes(types, "comprehensive") \/ Includes(types, kind)
    THEN <<TaskFor(kind)>> ELSE <<>>

createSwarmTasks(types) ==
    PushIf(types, "architecture") \o PushIf(types, "security")
        \o PushIf(types, "performance") \o PushIf(types, "quality")
        \o PushIf(types, "testing") \o PushIf(types, "documentation")

\* ----------------------------------------------------------------- sort
PriorityRank(p) == CASE p = "high" -> 3 [] p = "medium" -> 2 [] p = "low" -> 1

\* the comparator of tasks.sort: negative when a goes first
ComparePriority(a, b) == PriorityRank(b.priority) - PriorityRank(a.priority)

\* a sort that puts t in front of the elements it compares equal to
RECURSIVE InsertSortedBeforeTies(_, _)
InsertSortedBeforeTies(sorted, t) ==
    IF sorted = <<>> THEN <<t>>
    ELSE IF ComparePriority(t, Head(sorted)) <= 0 THEN <<t>> \o sorted
         ELSE <<Head(sorted)>> \o InsertSortedBeforeTies(Tail(sorted), t)

\* Array.prototype.sort is stable: t goes behind every element it does not precede
RECURSIVE InsertSorted(_, _)
InsertSorted(sorted, t) ==
    IF sorted = <<>> THEN <<t>>
    ELSE IF ComparePriority(t, Head(sorted)) < 0 THEN <<t>> \o sorted
         ELSE <<Head(sorted)>> \o InsertSorted(Tail(sorted), t)

RECURSIVE SortTasks(_)
SortTasks(ts) ==
    IF ts = <<>> THEN <<>>
    ELSE InsertSorted(SortTasks(SubSeq(ts, 1, Len(ts) - 1)), ts[Len(ts)])

\* ------------------------------------------------------ inference backend
\* messages a backend failure may carry (the wrapper is a black box to the swarm)
BackendErrors == {"Task timeout", "Service unavailable"}

\* what wrapper.chat may settle with:
\*   ok      resolves {success: true, data: {choices: [{message}]}}
\*   nodata  resolves {success: true} without data
\*   err     resolves {success: false, error}  (error may be missing)
\*   throw   rejects with new Error(message)
ChatShapes ==
    {[kind |-> "ok", message |-> Undefined], [kind |-> "nodata", message |-> Undefined]}
        \cup {[kind |-> "err", message |-> m] : m \in BackendErrors \cup {Undefined}}
        \cup {[kind |-> "throw", message |-> m] : m \in BackendErrors}

ExecTimes == 1..MaxExecTime

\* the taskTimeout the swarm is constructed with, in the unit of ExecTimes:
\* an answered call is faster
ConfiguredTimeout == MaxExecTime + 1

\* lines 11-12: the defaults of the constructor
DefaultMaxConcurrentAgents == 6
DefaultTaskTimeout == 120000

\* the config objects handed to the constructor: each of the two fields is
\* missing, zero, or a positive number
PassedConfigs ==
    UNION {[fields -> 0..MaxC] : fields \in SUBSET {"maxConcurrentAgents", "taskTimeout"}}

\* config[key] || default: a missing or zero value is falsy
OrDefault(passed, key, default) ==
    IF key \in DOMAIN passed /\ passed[key] # 0 THEN passed[key] ELSE default

\* { ...defaults, ...passed }: a field of passed replaces the one before it
Spread(defaults, passed) ==
    [k \in DOMAIN defaults \cup DOMAIN passed |->
        IF k \in DOMAIN passed THEN passed[k] ELSE defaults[k]]

\* lines 10-16: this.config
constructor(passed) ==
    Spread([maxConcurrentAgents |->
                OrDefault(passed, "maxConcurrentAgents", DefaultMaxConcurrentAgents),
            taskTimeout |-> OrDefault(passed, "taskTimeout", DefaultTaskTimeout)],
           passed)

TimeoutMessage == "Task timeout"
TypeErrorMessage == "TypeError: Cannot read properties of undefined"
AgentNotFound == "Agent not found"

\* ------------------------------------------------------------------ state
VARIABLES
    config,         \* this.config: [maxConcurrentAgents, taskTimeout]
    agents,         \* this.agents: agent id -> mutable agent record
    swarmMetrics,   \* this.swarmMetrics
    pc,             \* position of the call being served
    call,           \* the public method that was called, with its argument
    tasks,          \* the task array of executeSwarmTasks (sorted in place)
    cursor,         \* number of tasks the for loop has taken
    activeTasks,    \* the local activeTasks array: ids of task promises
    promises,       \* task id -> promise returned by executeAgentTask
    racing,         \* the promise of the pending Promise.race(activeTasks)
    results,        \* the map returned by executeSwarmTasks
    synthesis,      \* what the coordination call has settled with, once it has
    coordinated,    \* the value returned by coordinateResults
    chatCalls,      \* wrapper.chat calls made by executeAgentTask
    synthCalls,     \* wrapper.chat calls made by coordinateResults
    runs,           \* run id -> the locals of one of several overlapping runs
    snapshot,       \* the object a call of getSwarmMetrics has returned
    advanced,       \* the locals of a call of performAdvancedIntelligence
    dependency,     \* the locals of a call of generateDependencyGraph
    losersSettled,  \* tasks whose promise that lost the inner race has settled too
    qwen3           \* a Qwen3Client: its fields, the clock, and its completion calls

vars == <<config, agents, swarmMetrics, pc, call, tasks, cursor, activeTasks,
          promises, racing, results, synthesis, coordinated, chatCalls, synthCalls,
          runs, snapshot, advanced, dependency, losersSettled, qwen3>>

\* lines 270-272: this.config.taskTimeout
TaskTimeout == config.taskTimeout

\* the locals of the calls other than the one pc follows
otherCalls == <<runs, snapshot, advanced, dependency, losersSettled, qwen3>>

\* a promise that holds no value (yet)
NoValue == [settled |-> FALSE]

Unstarted == [state |-> "unstarted", value |-> NoValue, reason |-> Undefined, wonBy |-> Undefined]
Pending == [state |-> "pending", value |-> NoValue, reason |-> Undefined, wonBy |-> Undefined]
Fulfilled(v, by) == [state |-> "fulfilled", value |-> v, reason |-> Undefined, wonBy |-> by]
Rejected(r, by) == [state |-> "rejected", value |-> NoValue, reason |-> r, wonBy |-> by]

Settled(p) == p.state \in {"fulfilled", "rejected"}

NoRace == [state |-> "none", value |-> NoValue]

\* the outcome a settled promise hands to Promise.race
Outcome(p) ==
    [state |-> p.state,
     value |-> IF p.state = "fulfilled" THEN p.value ELSE [reason |-> p.reason]]

NotCoordinated == [pending |-> TRUE]
NoSynthesis == [kind |-> "none", message |-> Undefined]

EmptyMap == [k \in {} |-> Undefined]

\* ---------------------------------------------------------- executeAgentTask
\* lines 251-273: the synchronous part, up to `await Promise.race([...])`
StartAgentTask(ag, task) ==
    IF task.agentId \notin DOMAIN ag
    THEN [agents |-> ag, promise |-> Rejected(AgentNotFound, Undefined), called |-> 0]
    ELSE [agents |-> [ag EXCEPT ![task.agentId].status = "active"],
          promise |-> Pending, called |-> 1]

\* lines 298-311: the catch block
CatchBlock(ag, eff, task, message, executionTime, by) ==
    LET ag2 == [ag EXCEPT ![task.agentId].status = "idle"]
    IN  IF task.agentId \notin DOMAIN eff
        THEN [agents |-> ag2, eff |-> eff, promise |-> Rejected(TypeErrorMessage, by)]
        ELSE [agents |-> ag2,
              eff |-> [eff EXCEPT ![task.agentId].tasksAssigned = @ + 1],
              promise |-> Fulfilled([taskId |-> task.id, agentId |-> task.agentId,
                                     type |-> task.type, success |-> FALSE,
                                     result |-> Undefined, error |-> message,
                                     executionTime |-> executionTime], by)]

\* lines 275-296: the race was won by the inference call, which resolved
AfterChat(ag, eff, task, shape, executionTime) ==
    LET ag2 == [ag EXCEPT ![task.agentId].tasksCompleted = @ + 1,
                          ![task.agentId].averageResponseTime = RoundHalf(@ + executionTime),
                          ![task.agentId].status = "idle"]
    IN  IF task.agentId \notin DOMAIN eff
        THEN CatchBlock(ag2, eff, task, TypeErrorMessage, executionTime, "chat")
        ELSE LET eff2 == [eff EXCEPT ![task.agentId].tasksCompleted = @ + 1,
                                     ![task.agentId].averageTime = RoundHalf(@ + executionTime)]
             IN  CASE shape.kind = "ok" ->
                        [agents |-> ag2, eff |-> eff2,
                         promise |-> Fulfilled([taskId |-> task.id, agentId |-> task.agentId,
                                                type |-> task.type, success |-> TRUE,
                                                result |-> "content", error |-> Null,
                                                executionTime |-> executionTime], "chat")]
                   [] shape.kind = "err" ->
                        [agents |-> ag2, eff |-> eff2,
                         promise |-> Fulfilled([taskId |-> task.id, agentId |-> task.agentId,
                                                type |-> task.type, success |-> FALSE,
                                                result |-> Null, error |-> shape.message,
                                                executionTime |-> executionTime], "chat")]
                   [] shape.kind = "nodata" ->
                        CatchBlock(ag2, eff2, task, TypeErrorMessage, executionTime, "chat")

\* lines 275-296 writing the agent's tasksCompleted back from the value read
\* on a new swarm, so that a second completion is not counted
executeAgentTaskLosingUpdate(ag, eff, task, shape, executionTime) ==
    IF shape.kind = "throw"
    THEN CatchBlock(ag, eff, task, shape.message, executionTime, "chat")
    ELSE LET r == AfterChat(ag, eff, task, shape, executionTime)
         IN  [r EXCEPT !.agents = [@ EXCEPT ![task.agentId].tasksCompleted = 1]]

\* the continuation of executeAgentTask once its inner race has settled
executeAgentTask(ag, eff, task, shape, executionTime) ==
    IF shape.kind = "throw"
    THEN CatchBlock(ag, eff, task, shape.message, executionTime, "chat")
    ELSE AfterChat(ag, eff, task, shape, executionTime)

\* a timer whose firing does not reject the race: the task stays in flight
TaskTimedOutWithoutReject(ag, eff, task) ==
    [agents |-> ag, eff |-> eff, promise |-> Pending]

\* the timer rejected first
TaskTimedOut(ag, eff, task) ==
    CatchBlock(ag, eff, task, TimeoutMessage, TaskTimeout, "timer")

\* --------------------------------------------------------- executeSwarmTasks
\* Promise.race(arr) at the moment of the call: the first promise of arr, in
\* array order, that is already settled decides it; otherwise it stays pending
PromiseRace(arr, proms) ==
    LET done == {i \in DOMAIN arr : Settled(proms[arr[i]])}
    IN  IF done = {} THEN [state |-> "pending", value |-> NoValue]
        ELSE Outcome(proms[arr[CHOOSE k \in done : \A j \in done : k <= j]])

\* lines 227-230: start the next task and push its promise
StartNext(L, ts) ==
    LET task == ts[L.cursor + 1]
        r == StartAgentTask(L.agents, task)
    IN  [L EXCEPT !.cursor = @ + 1,
                  !.activeTasks = Append(@, task.id),
                  !.promises = [@ EXCEPT ![task.id] = r.promise],
                  !.agents = r.agents,
                  !.chatCalls = @ + r.called]

\* lines 219-234 waiting as soon as one more task would reach the ceiling
RECURSIVE ForLoopWaitingEarly(_, _, _)
ForLoopWaitingEarly(L, ts, ceiling) ==
    IF L.cursor >= Len(ts)
    THEN [L EXCEPT !.pc = "allSettled", !.racing = NoRace]
    ELSE IF Len(L.activeTasks) + 1 >= ceiling
         THEN [L EXCEPT !.pc = "race", !.racing = PromiseRace(L.activeTasks, L.promises)]
         ELSE ForLoopWaitingEarly(StartNext(L, ts), ts, ceiling)

\* lines 219-234: the for loop from its current position up to the next await
RECURSIVE ForLoop(_, _, _)
ForLoop(L, ts, ceiling) ==
    IF L.cursor >= Len(ts)
    THEN [L EXCEPT !.pc = "allSettled", !.racing = NoRace]
    ELSE IF Len(L.activeTasks) >= ceiling
         THEN [L EXCEPT !.pc = "race", !.racing = PromiseRace(L.activeTasks, L.promises)]
         ELSE ForLoop(StartNext(L, ts), ts, ceiling)

\* lines 222-224: what the loop removes from activeTasks once the race is won
\* by completedTask (a task result: it has a taskId and no id)
RemoveCompleted(arr, completedTask) ==
    Splice1(arr, FindIndexById(arr, Get(completedTask, "id")))

LoopState ==
    [cursor |-> cursor, activeTasks |-> activeTasks, promises |-> promises,
     agents |-> agents, chatCalls |-> chatCalls, pc |-> pc, racing |-> racing]

SetLoopState(L) ==
    /\ cursor' = L.cursor
    /\ activeTasks' = L.activeTasks
    /\ promises' = L.promises
    /\ agents' = L.agents
    /\ chatCalls' = L.chatCalls
    /\ pc' = L.pc
    /\ racing' = L.racing

\* lines 206-231: the call of executeSwarmTasks up to its first await
BeginExecute(ts) ==
    LET sorted == SortTasks(ts)
        L0 == [cursor |-> 0, activeTasks |-> <<>>,
               promises |-> [id \in TaskIds |-> Unstarted],
               agents |-> agents, chatCalls |-> chatCalls, pc |-> pc, racing |-> NoRace]
    IN  /\ tasks' = sorted
        /\ SetLoopState(ForLoop(L0, sorted, config.maxConcurrentAgents))

\* lines 236-244: the map built from Promise.allSettled(activeTasks)
CollectResults(arr, proms) ==
    LET ok == {i \in DOMAIN arr : proms[arr[i]].state = "fulfilled"}
        keys == {proms[arr[i]].value.taskId : i \in ok}
        last(k) == CHOOSE i \in ok :
                      /\ proms[arr[i]].value.taskId = k
                      /\ \A j \in ok : proms[arr[j]].value.taskId = k => j <= i
    IN  [k \in keys |-> proms[arr[last(k)]].value]

\* --------------------------------------------------------- coordinateResults
Successful(res) == {k \in DOMAIN res : res[k].success}

\* line 471 with the bound of 'high' one too low
ConfidenceHighAtThree(n) == IF n >= 3 THEN "high" ELSE IF n >= 2 THEN "medium" ELSE "low"

\* line 471 with the bound of 'medium' one too low
ConfidenceMediumAtOne(n) == IF n >= 4 THEN "high" ELSE IF n >= 1 THEN "medium" ELSE "low"

\* line 471
Confidence(n) == IF n >= 4 THEN "high" ELSE IF n >= 2 THEN "medium" ELSE "low"

\* lines 427-433 answering with the confidence of the fallback
NoSuccessResultMedium == [confidence |-> "medium"]

\* lines 427-433
NoSuccessResult == [confidence |-> "low"]

\* lines 465-473
SynthesisResult(res) ==
    [confidence |-> Confidence(Cardinality(Successful(res))),
     agentContributions |-> Cardinality(Successful(res))]

\* lines 479-486
FallbackResult(res) ==
    [confidence |-> "medium", agentContributions |-> Cardinality(Successful(res)),
     note |-> "Coordination synthesis failed, but individual analyses succeeded"]

\* lines 465-474 taking every response with success = true as usable
coordinateResultsTrustingSuccess(res, shape) ==
    IF shape.kind \in {"ok", "nodata"} THEN SynthesisResult(res) ELSE FallbackResult(res)

\* lines 454-486: what coordinateResults returns once the synthesis call settled
coordinateResults(res, shape) ==
    IF shape.kind = "ok" THEN SynthesisResult(res) ELSE FallbackResult(res)

\* ------------------------------------------------------------------ metrics
RECURSIVE SumTimes(_, _)
SumTimes(res, keys) ==
    IF keys = {} THEN 0
    ELSE LET k == CHOOSE x \in keys : TRUE
         IN  res[k].executionTime + SumTimes(res, keys \ {k})

\* lines 931-941
updateSwarmMetrics(m, res) ==
    LET done == Successful(res)
    IN  [m EXCEPT !.totalTasks = @ + Cardinality(DOMAIN res),
                  !.completedTasks = @ + Cardinality(done),
                  !.failedTasks = @ + Cardinality(DOMAIN res \ done),
                  !.averageTaskTime =
                      IF done # {} THEN RoundDiv(SumTimes(res, done), Cardinality(done)) ELSE @]

\* Object.keys(this.agents.keys()): the own enumerable properties of a Map
\* iterator, of which there are none
ObjectKeysOfIterator(m) == {}

\* lines 993-999 emptying the registry instead of zeroing its records
resetSwarmAgentsClearing(ag) ==
    [a \in {} |-> ag[a]]

\* lines 989-1020
resetSwarmAgents(ag) ==
    [a \in DOMAIN ag |->
        [ag[a] EXCEPT !.status = "idle", !.tasksCompleted = 0,
                      !.averageResponseTime = 0, !.successRate = 100]]

resetSwarmMetrics(ag) ==
    [totalTasks |-> 0, completedTasks |-> 0, failedTasks |-> 0, averageTaskTime |-> 0,
     agentEfficiency |->
        [a \in ObjectKeysOfIterator(ag) |->
            [tasksAssigned |-> 0, tasksCompleted |-> 0, averageTime |-> 0, successRate |-> 100]]]

\* --------------------------------------------------------- getSwarmMetrics
\* line 947
ActiveAgents(ag) == Cardinality({a \in DOMAIN ag : ag[a].status = "active"})

\* lines 953-958
calculateSwarmEfficiency(m) ==
    IF m.totalTasks = 0 THEN 100 ELSE RoundDiv(m.completedTasks * 100, m.totalTasks)

\* lines 943-951: the value of the returned object at the moment of the call
getSwarmMetrics(m, ag) ==
    [totalTasks |-> m.totalTasks, completedTasks |-> m.completedTasks,
     failedTasks |-> m.failedTasks, averageTaskTime |-> m.averageTaskTime,
     agentEfficiency |-> m.agentEfficiency,
     agents |-> ag,
     activeAgents |-> ActiveAgents(ag),
     totalAgents |-> Cardinality(DOMAIN ag),
     swarmEfficiency |-> calculateSwarmEfficiency(m)]

NoSnapshot == [taken |-> FALSE]

\* The spread of line 945 copies the numbers of this.swarmMetrics and the
\* REFERENCE to its agentEfficiency object; Object.fromEntries(this.agents)
\* builds a new object whose values are the agent records themselves.
\* effShared tells whether that agentEfficiency object is still the swarm's
\* (resetSwarm installs a new one); heldEfficiency is its value once it is not.
TakeSnapshot(m, ag) ==
    [taken |-> TRUE, returned |-> getSwarmMetrics(m, ag),
     effShared |-> TRUE, heldEfficiency |-> m.agentEfficiency]

\* what the holder of the returned object reads in it now
SnapshotView(snap, m, ag) ==
    [snap.returned EXCEPT
        !.agentEfficiency = IF snap.effShared THEN m.agentEfficiency ELSE snap.heldEfficiency,
        !.agents = ag]

\* lines 1002-1008: this.swarmMetrics is replaced, the old agentEfficiency
\* object stays as it is with whoever holds it
DetachSnapshot(snap, m) ==
    IF snap.taken /\ snap.effShared
    THEN [snap EXCEPT !.effShared = FALSE, !.heldEfficiency = m.agentEfficiency]
    ELSE snap

\* ------------------------------------------------ performAdvancedIntelligence
AdvancedOrder == <<"pattern", "debt", "evolution", "refactor">>

\* lines 632-673
AdvancedTaskFor(kind) ==
    CASE kind = "pattern" ->
            [id |-> "pattern", agentId |-> "architect", type |-> "pattern-detection", priority |-> "high"]
      [] kind = "debt" ->
            [id |-> "debt", agentId |-> "quality", type |-> "technical-debt", priority |-> "medium"]
      [] kind = "evolution" ->
            [id |-> "evolution", agentId |-> "architect", type |-> "architecture-evolution", priority |-> "medium"]
      [] kind = "refactor" ->
            [id |-> "refactor", agentId |-> "quality", type |-> "refactoring-analysis", priority |-> "low"]

AdvancedIds == Range(AdvancedOrder)

intelligenceTasks == [i \in DOMAIN AdvancedOrder |-> AdvancedTaskFor(AdvancedOrder[i])]

\* lines 695-717: executeAdvancedTask up to its await
StartAdvancedTask(ag, task) ==
    IF task.agentId \notin DOMAIN ag
    THEN [agents |-> ag, promise |-> Rejected(AgentNotFound, Undefined)]
    ELSE [agents |-> [ag EXCEPT ![task.agentId].status = "active"], promise |-> Pending]

\* lines 632-673: the four calls of executeAdvancedTask, one after the other
RECURSIVE StartAdvancedTasks(_, _, _)
StartAdvancedTasks(ag, proms, ts) ==
    IF ts = <<>> THEN [agents |-> ag, promises |-> proms]
    ELSE LET r == StartAdvancedTask(ag, Head(ts))
         IN  StartAdvancedTasks(r.agents, [proms EXCEPT ![Head(ts).id] = r.promise], Tail(ts))

\* lines 738-749
AdvancedCatch(ag, task, message, executionTime, by) ==
    [agents |-> [ag EXCEPT ![task.agentId].status = "idle"],
     promise |-> Fulfilled([taskId |-> task.id, agentId |-> task.agentId,
                            type |-> task.type, success |-> FALSE,
                            result |-> Undefined, error |-> message,
                            executionTime |-> executionTime], by)]

\* lines 719-749: the continuation of executeAdvancedTask once its race settled
executeAdvancedTask(ag, task, shape, executionTime) ==
    IF shape.kind = "throw"
    THEN AdvancedCatch(ag, task, shape.message, executionTime, "chat")
    ELSE LET ag2 == [ag EXCEPT ![task.agentId].tasksCompleted = @ + 1,
                               ![task.agentId].averageResponseTime = RoundHalf(@ + executionTime),
                               ![task.agentId].status = "idle"]
         IN  CASE shape.kind = "ok" ->
                    [agents |-> ag2,
                     promise |-> Fulfilled([taskId |-> task.id, agentId |-> task.agentId,
                                            type |-> task.type, success |-> TRUE,
                                            result |-> "content", error |-> Null,
                                            executionTime |-> executionTime], "chat")]
               [] shape.kind = "err" ->
                    [agents |-> ag2,
                     promise |-> Fulfilled([taskId |-> task.id, agentId |-> task.agentId,
                                            type |-> task.type, success |-> FALSE,
                                            result |-> Null, error |-> shape.message,
                                            executionTime |-> executionTime], "chat")]
               [] shape.kind = "nodata" ->
                    AdvancedCatch(ag2, task, TypeErrorMessage, executionTime, "chat")

AdvancedTimedOut(ag, task) == AdvancedCatch(ag, task, TimeoutMessage, TaskTimeout, "timer")

\* line 676: the values of the fulfilled promises, in the order of the tasks
RECURSIVE FulfilledValues(_, _)
FulfilledValues(ts, proms) ==
    IF ts = <<>> THEN <<>>
    ELSE (IF proms[Head(ts).id].state = "fulfilled" THEN <<proms[Head(ts).id].value>> ELSE <<>>)
            \o FulfilledValues(Tail(ts), proms)

\* line 687
AdvancedConfidence(n) == IF n >= 3 THEN "high" ELSE IF n >= 2 THEN "medium" ELSE "low"

\* lines 875-889: what generateIntelligenceSummary returns once its call settled
generateIntelligenceSummary(successful, shape) ==
    CASE shape.kind = "ok" -> [defined |-> TRUE, kind |-> "summary", analysisCount |-> Len(successful)]
      [] shape.kind = "err" -> [defined |-> FALSE, kind |-> Undefined, analysisCount |-> 0]
      [] OTHER -> [defined |-> TRUE, kind |-> "error", analysisCount |-> 0]

\* lines 839-841
NoAnalysisSummary == [defined |-> TRUE, kind |-> "error", analysisCount |-> 0]

NoSummary == [defined |-> FALSE, kind |-> "none", analysisCount |-> 0]

IdleAdvanced ==
    [pc |-> "idle", tasks |-> <<>>, promises |-> [id \in AdvancedIds |-> Unstarted],
     successful |-> <<>>, summary |-> NoSummary, confidence |-> Undefined]

\* --------------------------------------------------- generateDependencyGraph
\* lines 493-500
dependencyTask ==
    [id |-> "dep", agentId |-> "architect", type |-> "dependency-analysis", priority |-> "high"]

\* lines 531-546: what generateDependencyGraph returns once its call settled
generateDependencyGraph(shape) ==
    CASE shape.kind = "ok" -> [defined |-> TRUE, kind |-> "graph"]
      [] shape.kind = "err" -> [defined |-> FALSE, kind |-> Undefined]
      [] shape.kind = "throw" -> [defined |-> TRUE, kind |-> "error"]
      [] shape.kind = "nodata" -> [defined |-> TRUE, kind |-> "error"]

IdleDependency == [pc |-> "idle", tasks |-> <<>>, result |-> [defined |-> FALSE, kind |-> "none"]]

\* ------------------------------------------------------- overlapping runs
RunIds == 1..MaxRuns

IdleRun ==
    [pc |-> "idle", analysisTypes |-> <<>>, tasks |-> <<>>, cursor |-> 0, activeTasks |-> <<>>,
     promises |-> [id \in TaskIds |-> Unstarted], racing |-> NoRace,
     results |-> EmptyMap, synthesis |-> NoSynthesis, coordinated |-> NotCoordinated]

\* the loop state of a run, over the swarm's shared agents
RunLoop(run, ag, calls) ==
    [cursor |-> run.cursor, activeTasks |-> run.activeTasks, promises |-> run.promises,
     agents |-> ag, chatCalls |-> calls, pc |-> run.pc, racing |-> run.racing]

PutLoop(run, L) ==
    [run EXCEPT !.cursor = L.cursor, !.activeTasks = L.activeTasks,
                !.promises = L.promises, !.pc = L.pc, !.racing = L.racing]

\* ------------------------------------------------------------------- inputs
\* analyzeRepositorySwarm is called with the first k kinds, or with a kind
\* that no branch of createSwarmTasks knows
Requests == {SubSeq(KindOrder, 1, k) : k \in 0..MaxTypes} \cup {<<"licensing">>}

\* the requests of the runs that resetSwarm may interrupt
ResetRequests ==
    {SubSeq(KindOrder, 1, k) : k \in 0..MaxResetTypes} \cup {<<"licensing">>}

\* the kinds a caller may name: the six known ones, 'comprehensive', and one
\* that createSwarmTasks does not know
RequestKinds == Range(KindOrder) \cup {"comprehensive", "licensing"}

\* every list of at most MaxRequestLen kinds, repetitions included
RECURSIVE KindLists(_)
KindLists(n) ==
    IF n = 0 THEN {<<>>}
    ELSE KindLists(n - 1)
            \cup {Append(l, k) : l \in {x \in KindLists(n - 1) : Len(x) = n - 1}, k \in RequestKinds}

BuildRequests == KindLists(MaxRequestLen)

\* the requests of overlapping runs: each has one task of the architect
ConcRequests == {<<"architecture">>, <<"architecture", "security">>}

\* in the runs that overlap or follow each other the backend answers with
\* success when it answers; a call it leaves unanswered is ended by its timer
ConcShapes == {[kind |-> "ok", message |-> Undefined]}

\* in these runs every answered call takes one unit of time
ConcTimes == {1}

\* Date.now() - startTime of the answered calls in the runs whose average
\* response time is followed
BlendTimes == 1..(MaxExecTime + 2)

\* what the backend does in these runs when it settles a call
BlendShapes ==
    {[kind |-> "ok", message |-> Undefined], [kind |-> "throw", message |-> "Service unavailable"]}

\* task lists handed directly to executeSwarmTasks: the tasks of the first k
\* kinds, any of them possibly naming an agent the registry does not hold
RECURSIVE DirectLists(_)
DirectLists(k) ==
    IF k = 0 THEN {<<>>}
    ELSE LET t == TaskFor(KindOrder[k])
         IN  UNION {{Append(prefix, t), Append(prefix, [t EXCEPT !.agentId = GhostAgent])}
                       : prefix \in DirectLists(k - 1)}

DirectTaskLists == UNION {DirectLists(k) : k \in 0..MaxDirect}

\* task lists handed directly to executeSwarmTasks in any order: some of the
\* tasks of the first MaxDirect kinds, each at most once, all of registered agents
ShuffledTaskLists ==
    LET known == {TaskFor(KindOrder[k]) : k \in 1..MaxDirect}
    IN  {ts \in UNION {[1..n -> known] : n \in 0..MaxDirect} :
            \A i, j \in DOMAIN ts : ts[i] = ts[j] => i = j}

\* the task list of two executions that are compared: the tasks of the first
\* MaxDirect + 1 kinds, the one before the last naming an unregistered agent
ComparedTaskList ==
    [k \in 1..(MaxDirect + 1) |->
        IF k = MaxDirect THEN [TaskFor(KindOrder[k]) EXCEPT !.agentId = GhostAgent]
        ELSE TaskFor(KindOrder[k])]

\* what the backend answers to the tasks of such a list: a success, a
\* failure without an error field, or an exception
ShuffledShapes ==
    {[kind |-> "ok", message |-> Undefined], [kind |-> "err", message |-> Undefined],
     [kind |-> "throw", message |-> "Service unavailable"]}

\* result maps handed directly to coordinateResults: for any set of the six
\* tasks, each with a successful or a timed-out result
ResultOf(task, ok) ==
    [taskId |-> task.id, agentId |-> task.agentId, type |-> task.type, success |-> ok,
     result |-> IF ok THEN "content" ELSE Undefined,
     error |-> IF ok THEN Null ELSE TimeoutMessage,
     executionTime |-> IF ok THEN 1 ELSE TaskTimeout]

ResultMaps ==
    UNION {[ids -> BOOLEAN] : ids \in SUBSET TaskIds}

MapOf(flags) ==
    [id \in DOMAIN flags |->
        ResultOf(TaskFor(CHOOSE k \in Range(KindOrder) : TaskFor(k).id = id), flags[id])]

\* ------------------------------------------------------------ Qwen3Client
\* config.primary_key and config.backup_key
Keys == {"primary_key", "backup_key"}

\* lines 803 and 805
PrimaryLimit == 35
BackupLimit == 8
Window == 10000

\* Date.now() is read at multiples of Tick, up to MaxTicks of them
Tick == 5000
MaxTicks == 3

\* the completion calls that can be under way at once, and how many are made
Callers == 1..MaxCallers

NoLimiter == [set |-> FALSE, requests |-> 0, windowStart |-> 0]

IdleCall == [pc |-> "idle", apiKey |-> "none", wakeAt |-> 0]

\* lines 736-741, with the clock and the calls being served
NewQwen3Client ==
    [currentKeyIndex |-> 0, requestCount |-> 0,
     rateLimiter |-> [k \in Keys |-> NoLimiter],
     now |-> 0, started |-> 0, calls |-> [c \in Callers |-> IdleCall], last429 |-> "none"]

\* lines 793-795
getCurrentKey(q) == IF q.currentKeyIndex = 0 THEN "primary_key" ELSE "backup_key"

\* lines 797-800
rotateKey(q) == [q EXCEPT !.currentKeyIndex = (@ + 1) % 2]

\* lines 802-827: enforceRateLimit(apiKey) up to its await or its end; the
\* limit is the one of the key that is current at this moment
enforceRateLimit(q, apiKey) ==
    LET limit == IF q.currentKeyIndex = 0 THEN PrimaryLimit ELSE BackupLimit
        had == IF q.rateLimiter[apiKey].set THEN q.rateLimiter[apiKey]
               ELSE [set |-> TRUE, requests |-> 0, windowStart |-> q.now]
        limiter == IF q.now - had.windowStart > Window
                   THEN [had EXCEPT !.requests = 0, !.windowStart = q.now]
                   ELSE had
    IN  IF limiter.requests >= limit
        THEN [admitted |-> FALSE, waitTime |-> Window - (q.now - limiter.windowStart),
              rateLimiter |-> [q.rateLimiter EXCEPT ![apiKey] = limiter]]
        ELSE [admitted |-> TRUE, waitTime |-> 0,
              rateLimiter |-> [q.rateLimiter EXCEPT ![apiKey] = [limiter EXCEPT !.requests = @ + 1]]]

\* caller c goes on after enforceRateLimit(apiKey): it sends its request when
\* admitted (lines 749-789), or sleeps for waitTime (lines 820-824)
AfterLimit(q, c, apiKey) ==
    LET e == enforceRateLimit(q, apiKey)
    IN  [q EXCEPT !.rateLimiter = e.rateLimiter,
                  !.calls[c] = IF e.admitted
                               THEN [pc |-> "sent", apiKey |-> apiKey, wakeAt |-> 0]
                               ELSE [pc |-> "waiting", apiKey |-> apiKey,
                                     wakeAt |-> q.now + e.waitTime]]

\* -------------------------------------------------------------------- Init
Init ==
    /\ config \in [maxConcurrentAgents : 1..MaxC, taskTimeout : {ConfiguredTimeout}]
    /\ agents = initializeAgents
    /\ swarmMetrics = InitialSwarmMetrics
    /\ pc = "idle"
    /\ call = [op |-> "none"]
    /\ tasks = <<>>
    /\ cursor = 0
    /\ activeTasks = <<>>
    /\ promises = [id \in TaskIds |-> Unstarted]
    /\ racing = NoRace
    /\ results = EmptyMap
    /\ synthesis = NoSynthesis
    /\ coordinated = NotCoordinated
    /\ chatCalls = 0
    /\ synthCalls = 0
    /\ runs = [r \in RunIds |-> IdleRun]
    /\ snapshot = NoSnapshot
    /\ advanced = IdleAdvanced
    /\ dependency = IdleDependency
    /\ losersSettled = {}
    /\ qwen3 = NewQwen3Client

\* ----------------------------------------------------------------- actions
\* analyzeRepositorySwarm(repository, types): lines 103-107, into
\* executeSwarmTasks up to its first await
AnalyzeRepositorySwarm(types) ==
    /\ pc = "idle"
    /\ call' = [op |-> "analyzeRepositorySwarm", analysisTypes |-> types]
    /\ BeginExecute(createSwarmTasks(types))
    /\ UNCHANGED <<otherCalls, config, swarmMetrics, results, synthesis, coordinated, synthCalls>>

\* executeSwarmTasks(ts) called on its own
ExecuteSwarmTasks(ts) ==
    /\ pc = "idle"
    /\ call' = [op |-> "executeSwarmTasks", tasks |-> ts]
    /\ BeginExecute(ts)
    /\ UNCHANGED <<otherCalls, config, swarmMetrics, results, synthesis, coordinated, synthCalls>>

TaskById(id) == tasks[CHOOSE i \in DOMAIN tasks : tasks[i].id = id]

\* the pending Promise.race(activeTasks) is settled by the first of its
\* promises to settle
RaceAfter(id, p) ==
    IF pc = "race" /\ racing.state = "pending" /\ id \in Range(activeTasks)
    THEN Outcome(p)
    ELSE racing

TaskSettles(id, r) ==
    /\ agents' = r.agents
    /\ swarmMetrics' = [swarmMetrics EXCEPT !.agentEfficiency = r.eff]
    /\ promises' = [promises EXCEPT ![id] = r.promise]
    /\ racing' = RaceAfter(id, r.promise)
    /\ UNCHANGED <<otherCalls, config, pc, call, tasks, cursor, activeTasks, results, synthesis, coordinated,
                   chatCalls, synthCalls>>

\* the inference call of task id settles before the timer: lines 275-311
ChatSettles(id, shape, executionTime) ==
    /\ promises[id].state = "pending"
    /\ TaskSettles(id, executeAgentTask(agents, swarmMetrics.agentEfficiency,
                                        TaskById(id), shape, executionTime))

\* lines 270-272 calling the backend again, up to config.retryAttempts (2)
\* times, when the timer fires
TimerFiresRetrying(id) ==
    /\ promises[id].state = "pending"
    /\ chatCalls < cursor + 2
    /\ chatCalls' = chatCalls + 1
    /\ UNCHANGED <<otherCalls, config, agents, swarmMetrics, pc, call, tasks, cursor, activeTasks,
                   promises, racing, results, synthesis, coordinated, synthCalls>>

\* the timer of task id fires before the inference call settles: lines 270-272, 298-311
TimerFires(id) ==
    /\ promises[id].state = "pending"
    /\ TaskSettles(id, TaskTimedOut(agents, swarmMetrics.agentEfficiency, TaskById(id)))

\* lines 263-273 running the continuation of executeAgentTask again when the
\* second promise of the race settles
LoserSettlesResuming(id, out) ==
    /\ agents' = out.agents
    /\ swarmMetrics' = [swarmMetrics EXCEPT !.agentEfficiency = out.eff]
    /\ promises' = [promises EXCEPT ![id] = out.promise]
    /\ UNCHANGED racing

\* lines 263-273: Promise.race([chat, timer]) has settled with the first of
\* its two promises and executeAgentTask has gone on from its await; when the
\* other promise settles with out, its reaction finds the race settled: no
\* continuation of the swarm runs
LoserSettles(id, out) ==
    UNCHANGED <<agents, swarmMetrics, promises, racing>>

\* the inference call of task id answers or fails after the timer has fired
LateChatSettles(id, shape, executionTime) ==
    /\ promises[id].wonBy = "timer"
    /\ id \notin losersSettled
    /\ losersSettled' = losersSettled \cup {id}
    /\ LoserSettles(id, executeAgentTask(agents, swarmMetrics.agentEfficiency,
                                         TaskById(id), shape, executionTime))
    /\ UNCHANGED <<runs, snapshot, advanced, dependency, qwen3, config, pc, call, tasks, cursor,
                   activeTasks, results, synthesis, coordinated, chatCalls, synthCalls>>

\* the timer of task id (never cleared) fires after the inference call has settled
LateTimerFires(id) ==
    /\ promises[id].wonBy = "chat"
    /\ id \notin losersSettled
    /\ losersSettled' = losersSettled \cup {id}
    /\ LoserSettles(id, TaskTimedOut(agents, swarmMetrics.agentEfficiency, TaskById(id)))
    /\ UNCHANGED <<runs, snapshot, advanced, dependency, qwen3, config, pc, call, tasks, cursor,
                   activeTasks, results, synthesis, coordinated, chatCalls, synthCalls>>

\* lines 222-231: the loop resumes from `await Promise.race(activeTasks)`
ExecutorResume ==
    /\ pc = "race"
    /\ racing.state = "fulfilled"
    /\ LET L1 == [LoopState EXCEPT !.activeTasks = RemoveCompleted(@, racing.value)]
       IN  SetLoopState(ForLoop(StartNext(L1, tasks), tasks, config.maxConcurrentAgents))
    /\ UNCHANGED <<otherCalls, config, swarmMetrics, call, tasks, results, synthesis, coordinated, synthCalls>>

\* the race rejected: the await throws and executeSwarmTasks rejects, and
\* with it analyzeRepositorySwarm
ExecutorThrows ==
    /\ pc = "race"
    /\ racing.state = "rejected"
    /\ pc' = "threw"
    /\ UNCHANGED <<otherCalls, config, agents, swarmMetrics, call, tasks, cursor, activeTasks, promises,
                   racing, results, synthesis, coordinated, chatCalls, synthCalls>>

\* lines 234-244: Promise.allSettled(activeTasks) resolved
ExecutorReturns ==
    /\ pc = "allSettled"
    /\ \A i \in DOMAIN activeTasks : Settled(promises[activeTasks[i]])
    /\ results' = CollectResults(activeTasks, promises)
    /\ pc' = "execDone"
    /\ UNCHANGED <<otherCalls, config, agents, swarmMetrics, call, tasks, cursor, activeTasks, promises,
                   racing, synthesis, coordinated, chatCalls, synthCalls>>

\* lines 424-463 without the early return of lines 427-433
BeginCoordinateWithoutGuard(res) ==
    /\ synthCalls' = synthCalls + 1
    /\ pc' = "synth"
    /\ UNCHANGED <<synthesis, coordinated>>

\* lines 424-463: coordinateResults up to its await, or its early return
BeginCoordinate(res) ==
    IF Successful(res) = {}
    THEN /\ coordinated' = NoSuccessResult
         /\ pc' = "coordDone"
         /\ UNCHANGED <<synthCalls, synthesis>>
    ELSE /\ synthCalls' = synthCalls + 1
         /\ pc' = "synth"
         /\ UNCHANGED <<synthesis, coordinated>>

\* line 109: analyzeRepositorySwarm goes on with the executor's map
AnalyzeCoordinates ==
    /\ pc = "execDone"
    /\ BeginCoordinate(results)
    /\ UNCHANGED <<otherCalls, config, agents, swarmMetrics, call, tasks, cursor, activeTasks, promises,
                   racing, results, chatCalls>>

\* coordinateResults(MapOf(flags), repository) called on its own
CoordinateResults(flags) ==
    /\ pc = "idle"
    /\ call' = [op |-> "coordinateResults"]
    /\ results' = MapOf(flags)
    /\ BeginCoordinate(MapOf(flags))
    /\ UNCHANGED <<otherCalls, config, agents, swarmMetrics, tasks, cursor, activeTasks, promises,
                   racing, chatCalls>>

\* lines 465-486 calling the coordination model again when the call failed
SynthSettlesRetrying(shape) ==
    /\ pc = "synth"
    /\ synthesis' = shape
    /\ IF shape.kind = "ok"
       THEN /\ coordinated' = coordinateResults(results, shape)
            /\ pc' = "coordDone"
            /\ UNCHANGED synthCalls
       ELSE /\ synthCalls' = synthCalls + 1
            /\ UNCHANGED <<coordinated, pc>>
    /\ UNCHANGED <<otherCalls, config, agents, swarmMetrics, call, tasks, cursor, activeTasks, promises,
                   racing, results, chatCalls>>

\* lines 465-486: the synthesis call settled
SynthSettles(shape) ==
    /\ pc = "synth"
    /\ synthesis' = shape
    /\ coordinated' = coordinateResults(results, shape)
    /\ pc' = "coordDone"
    /\ UNCHANGED <<otherCalls, config, agents, swarmMetrics, call, tasks, cursor, activeTasks, promises,
                   racing, results, chatCalls, synthCalls>>

\* lines 111-119
AnalyzeReturns ==
    /\ pc = "coordDone"
    /\ swarmMetrics' = updateSwarmMetrics(swarmMetrics, results)
    /\ pc' = "returned"
    /\ UNCHANGED <<otherCalls, config, agents, call, tasks, cursor, activeTasks, promises, racing,
                   results, synthesis, coordinated, chatCalls, synthCalls>>

\* new AIAgentSwarm(wrapper, passed): lines 8-16, the swarm being as
\* constructed
NewSwarm(passed) ==
    /\ pc = "idle"
    /\ call.op = "none"
    /\ call' = [op |-> "constructor", passed |-> passed]
    /\ config' = constructor(passed)
    /\ UNCHANGED <<otherCalls, agents, swarmMetrics, pc, tasks, cursor, activeTasks, promises,
                   racing, results, synthesis, coordinated, chatCalls, synthCalls>>

\* resetSwarm(): lines 989-1020
ResetSwarm ==
    /\ agents' = resetSwarmAgents(agents)
    /\ swarmMetrics' = resetSwarmMetrics(agents)
    /\ snapshot' = DetachSnapshot(snapshot, swarmMetrics)
    /\ UNCHANGED <<runs, advanced, dependency, losersSettled, qwen3, config, pc, call, tasks, cursor, activeTasks, promises, racing, results,
                   synthesis, coordinated, chatCalls, synthCalls>>

\* createSwarmTasks(repository, types) called on its own: lines 125-201
CreateSwarmTasks(types) ==
    /\ pc = "idle"
    /\ call' = [op |-> "createSwarmTasks", analysisTypes |-> types]
    /\ tasks' = createSwarmTasks(types)
    /\ pc' = "built"
    /\ UNCHANGED <<otherCalls, config, agents, swarmMetrics, cursor, activeTasks, promises,
                   racing, results, synthesis, coordinated, chatCalls, synthCalls>>

\* getSwarmMetrics(): lines 943-951; the caller keeps the returned object
GetSwarmMetrics ==
    /\ ~snapshot.taken
    /\ snapshot' = TakeSnapshot(swarmMetrics, agents)
    /\ UNCHANGED <<runs, advanced, dependency, losersSettled, qwen3, config, agents, swarmMetrics, pc, call, tasks,
                   cursor, activeTasks, promises, racing, results, synthesis, coordinated,
                   chatCalls, synthCalls>>

\* ---------------------------------------------- actions of overlapping runs
\* the variables no step of a run touches
runFrame == <<snapshot, advanced, dependency, losersSettled, qwen3, config, pc, call, tasks, cursor, activeTasks,
              promises, racing, results, synthesis, coordinated>>

\* analyzeRepositorySwarm(repository, types) as run r: lines 103-107 into
\* executeSwarmTasks up to its first await; runs are numbered as they start
RunStarts(r, types) ==
    /\ runs[r].pc = "idle"
    /\ \A q \in RunIds : q < r => runs[q].pc # "idle"
    /\ LET sorted == SortTasks(createSwarmTasks(types))
           L == ForLoop(RunLoop(IdleRun, agents, chatCalls), sorted, config.maxConcurrentAgents)
       IN  /\ runs' = [runs EXCEPT ![r] =
                          PutLoop([IdleRun EXCEPT !.analysisTypes = types, !.tasks = sorted], L)]
           /\ agents' = L.agents
           /\ chatCalls' = L.chatCalls
    /\ UNCHANGED <<runFrame, swarmMetrics, synthCalls>>

\* executeSwarmTasks(ts) called on its own as run r: lines 206-231
RunExecutes(r, ts) ==
    /\ runs[r].pc = "idle"
    /\ \A q \in RunIds : q < r => runs[q].pc # "idle"
    /\ LET sorted == SortTasks(ts)
           L == ForLoop(RunLoop(IdleRun, agents, chatCalls), sorted, config.maxConcurrentAgents)
       IN  /\ runs' = [runs EXCEPT ![r] = PutLoop([IdleRun EXCEPT !.tasks = sorted], L)]
           /\ agents' = L.agents
           /\ chatCalls' = L.chatCalls
    /\ UNCHANGED <<runFrame, swarmMetrics, synthCalls>>

RunTaskById(r, id) ==
    runs[r].tasks[CHOOSE i \in DOMAIN runs[r].tasks : runs[r].tasks[i].id = id]

RunTaskSettles(r, id, out) ==
    /\ agents' = out.agents
    /\ swarmMetrics' = [swarmMetrics EXCEPT !.agentEfficiency = out.eff]
    /\ runs' = [runs EXCEPT
                   ![r].promises[id] = out.promise,
                   ![r].racing =
                       IF runs[r].pc = "race" /\ @.state = "pending"
                          /\ id \in Range(runs[r].activeTasks)
                       THEN Outcome(out.promise) ELSE @]
    /\ UNCHANGED <<runFrame, chatCalls, synthCalls>>

\* lines 275-311 in run r
RunChatSettles(r, id, shape, executionTime) ==
    /\ runs[r].promises[id].state = "pending"
    /\ RunTaskSettles(r, id, executeAgentTask(agents, swarmMetrics.agentEfficiency,
                                              RunTaskById(r, id), shape, executionTime))

\* lines 270-272, 298-311 in run r
RunTimerFires(r, id) ==
    /\ runs[r].promises[id].state = "pending"
    /\ RunTaskSettles(r, id, TaskTimedOut(agents, swarmMetrics.agentEfficiency,
                                          RunTaskById(r, id)))

\* lines 222-231 in run r
RunResumes(r) ==
    /\ runs[r].pc = "race"
    /\ runs[r].racing.state = "fulfilled"
    /\ LET L0 == RunLoop(runs[r], agents, chatCalls)
           L1 == [L0 EXCEPT !.activeTasks = RemoveCompleted(@, runs[r].racing.value)]
           L == ForLoop(StartNext(L1, runs[r].tasks), runs[r].tasks, config.maxConcurrentAgents)
       IN  /\ runs' = [runs EXCEPT ![r] = PutLoop(@, L)]
           /\ agents' = L.agents
           /\ chatCalls' = L.chatCalls
    /\ UNCHANGED <<runFrame, swarmMetrics, synthCalls>>

\* the race of run r rejected: the run rejects
RunThrows(r) ==
    /\ runs[r].pc = "race"
    /\ runs[r].racing.state = "rejected"
    /\ runs' = [runs EXCEPT ![r].pc = "threw"]
    /\ UNCHANGED <<runFrame, agents, swarmMetrics, chatCalls, synthCalls>>

\* lines 234-244 in run r
RunExecutorReturns(r) ==
    /\ runs[r].pc = "allSettled"
    /\ \A i \in DOMAIN runs[r].activeTasks : Settled(runs[r].promises[runs[r].activeTasks[i]])
    /\ runs' = [runs EXCEPT ![r].results = CollectResults(runs[r].activeTasks, runs[r].promises),
                            ![r].pc = "execDone"]
    /\ UNCHANGED <<runFrame, agents, swarmMetrics, chatCalls, synthCalls>>

\* line 109 and lines 424-463 in run r
RunCoordinates(r) ==
    /\ runs[r].pc = "execDone"
    /\ IF Successful(runs[r].results) = {}
       THEN /\ runs' = [runs EXCEPT ![r].coordinated = NoSuccessResult, ![r].pc = "coordDone"]
            /\ UNCHANGED synthCalls
       ELSE /\ runs' = [runs EXCEPT ![r].pc = "synth"]
            /\ synthCalls' = synthCalls + 1
    /\ UNCHANGED <<runFrame, agents, swarmMetrics, chatCalls>>

\* lines 465-486 in run r
RunSynthSettles(r, shape) ==
    /\ runs[r].pc = "synth"
    /\ runs' = [runs EXCEPT ![r].synthesis = shape,
                            ![r].coordinated = coordinateResults(runs[r].results, shape),
                            ![r].pc = "coordDone"]
    /\ UNCHANGED <<runFrame, agents, swarmMetrics, chatCalls, synthCalls>>

\* lines 111-119 in run r
RunReturns(r) ==
    /\ runs[r].pc = "coordDone"
    /\ swarmMetrics' = updateSwarmMetrics(swarmMetrics, runs[r].results)
    /\ runs' = [runs EXCEPT ![r].pc = "returned"]
    /\ UNCHANGED <<runFrame, agents, chatCalls, synthCalls>>

\* ------------------------------------ actions of performAdvancedIntelligence
advancedFrame == <<runs, snapshot, dependency, losersSettled, qwen3, config, swarmMetrics, pc, call, tasks, cursor,
                   activeTasks, promises, racing, results, synthesis, coordinated,
                   chatCalls, synthCalls>>

\* lines 628-675: the four tasks are built and started, then allSettled is awaited
PerformAdvancedIntelligence ==
    /\ advanced.pc = "idle"
    /\ LET r == StartAdvancedTasks(agents, IdleAdvanced.promises, intelligenceTasks)
       IN  /\ agents' = r.agents
           /\ advanced' = [IdleAdvanced EXCEPT !.pc = "allSettled", !.tasks = intelligenceTasks,
                                               !.promises = r.promises]
    /\ UNCHANGED advancedFrame

AdvancedTaskById(id) ==
    advanced.tasks[CHOOSE i \in DOMAIN advanced.tasks : advanced.tasks[i].id = id]

AdvancedTaskSettles(id, out) ==
    /\ agents' = out.agents
    /\ advanced' = [advanced EXCEPT !.promises[id] = out.promise]
    /\ UNCHANGED advancedFrame

\* lines 719-749
AdvancedChatSettles(id, shape, executionTime) ==
    /\ advanced.promises[id].state = "pending"
    /\ AdvancedTaskSettles(id, executeAdvancedTask(agents, AdvancedTaskById(id), shape, executionTime))

\* lines 714-716, 738-749
AdvancedTimerFires(id) ==
    /\ advanced.promises[id].state = "pending"
    /\ AdvancedTaskSettles(id, AdvancedTimedOut(agents, AdvancedTaskById(id)))

\* lines 675-679 and 838-873: allSettled resolved, generateIntelligenceSummary
\* makes its call (or returns at once when nothing was fulfilled)
AdvancedSummarizes ==
    /\ advanced.pc = "allSettled"
    /\ \A id \in AdvancedIds : Settled(advanced.promises[id])
    /\ LET successful == FulfilledValues(advanced.tasks, advanced.promises)
       IN  advanced' = IF successful = <<>>
                       THEN [advanced EXCEPT !.successful = successful, !.pc = "summarized",
                                             !.summary = NoAnalysisSummary]
                       ELSE [advanced EXCEPT !.successful = successful, !.pc = "summary"]
    /\ UNCHANGED <<advancedFrame, agents>>

\* lines 875-889: the summary call settled
SummarySettles(shape) ==
    /\ advanced.pc = "summary"
    /\ advanced' = [advanced EXCEPT !.summary = generateIntelligenceSummary(advanced.successful, shape),
                                    !.pc = "summarized"]
    /\ UNCHANGED <<advancedFrame, agents>>

\* lines 681-688
AdvancedReturns ==
    /\ advanced.pc = "summarized"
    /\ advanced' = [advanced EXCEPT !.confidence = AdvancedConfidence(Len(advanced.successful)),
                                    !.pc = "returned"]
    /\ UNCHANGED <<advancedFrame, agents>>

\* ---------------------------------------- actions of generateDependencyGraph
dependencyFrame == <<runs, snapshot, advanced, losersSettled, qwen3, config, agents, swarmMetrics, pc, call, tasks,
                     cursor, activeTasks, promises, racing, results, synthesis, coordinated,
                     chatCalls, synthCalls>>

\* lines 492-529: the task is built and the call is made
GenerateDependencyGraph ==
    /\ dependency.pc = "idle"
    /\ dependency' = [dependency EXCEPT !.pc = "chat", !.tasks = <<dependencyTask>>]
    /\ UNCHANGED dependencyFrame

\* lines 531-546
DependencySettles(shape) ==
    /\ dependency.pc = "chat"
    /\ dependency' = [dependency EXCEPT !.pc = "returned", !.result = generateDependencyGraph(shape)]
    /\ UNCHANGED dependencyFrame

\* ------------------------------------------------- actions of Qwen3Client
qwenFrame == <<config, agents, swarmMetrics, pc, call, tasks, cursor, activeTasks, promises,
               racing, results, synthesis, coordinated, chatCalls, synthCalls, runs, snapshot,
               advanced, dependency, losersSettled>>

\* completion(params) called as c: lines 743-747
Completion(c) ==
    /\ qwen3.calls[c].pc = "idle"
    /\ qwen3.started < MaxRequests
    /\ qwen3' = AfterLimit([qwen3 EXCEPT !.started = @ + 1, !.last429 = "none"], c,
                           getCurrentKey(qwen3))
    /\ UNCHANGED qwenFrame

\* the timer of a waiting caller fires, at its time or later: lines 822-823
WaiterWakes(c) ==
    /\ qwen3.calls[c].pc = "waiting"
    /\ qwen3.now >= qwen3.calls[c].wakeAt
    /\ qwen3' = AfterLimit(qwen3, c, qwen3.calls[c].apiKey)
    /\ UNCHANGED qwenFrame

\* the response to the request of c arrives: lines 768-785
Responds(c, statusCode) ==
    /\ qwen3.calls[c].pc = "sent"
    /\ LET k == qwen3.calls[c].apiKey
           q == [qwen3 EXCEPT !.calls[c] = IdleCall]
       IN  qwen3' = CASE statusCode = 200 -> [q EXCEPT !.requestCount = @ + 1]
                      [] statusCode = 429 -> [rotateKey(q) EXCEPT !.last429 = k]
                      [] OTHER -> q
    /\ UNCHANGED qwenFrame

\* time passes
ClockTicks ==
    /\ qwen3.now < MaxTicks * Tick
    /\ qwen3' = [qwen3 EXCEPT !.now = @ + Tick]
    /\ UNCHANGED qwenFrame

\* ---------------------------------------------------------- specifications
\* the steps of a run of analyzeRepositorySwarm after its call
RunSteps ==
    \/ \E id \in TaskIds, shape \in ChatShapes, e \in ExecTimes : ChatSettles(id, shape, e)
    \/ \E id \in TaskIds : TimerFires(id)
    \/ ExecutorResume
    \/ ExecutorReturns
    \/ AnalyzeCoordinates
    \/ \E shape \in ChatShapes : SynthSettles(shape)
    \/ AnalyzeReturns

\* one run of analyzeRepositorySwarm on a constructed swarm
Next ==
    \/ \E types \in Requests : AnalyzeRepositorySwarm(types)
    \/ RunSteps

Spec == Init /\ [][Next]_vars

\* one run of analyzeRepositorySwarm with resetSwarm called at any moment
NextReset ==
    \/ \E types \in ResetRequests : AnalyzeRepositorySwarm(types)
    \/ RunSteps
    \/ ExecutorThrows
    \/ ResetSwarm

SpecReset == Init /\ [][NextReset]_vars

\* executeSwarmTasks called on its own, with task lists that may name an
\* unregistered agent
NextExec ==
    \/ \E ts \in DirectTaskLists : ExecuteSwarmTasks(ts)
    \/ \E id \in TaskIds, shape \in ChatShapes, e \in ExecTimes : ChatSettles(id, shape, e)
    \/ \E id \in TaskIds : TimerFires(id)
    \/ ExecutorResume
    \/ ExecutorThrows
    \/ ExecutorReturns
    \/ ResetSwarm

SpecExec == Init /\ [][NextExec]_vars

\* executeSwarmTasks called on its own with the tasks of registered agents
\* in any order
NextShuffled ==
    \/ \E ts \in ShuffledTaskLists : ExecuteSwarmTasks(ts)
    \/ \E id \in TaskIds, shape \in ShuffledShapes, e \in ConcTimes : ChatSettles(id, shape, e)
    \/ \E id \in TaskIds : TimerFires(id)
    \/ ExecutorResume
    \/ ExecutorReturns

SpecShuffled == Init /\ [][NextShuffled]_vars

\* a swarm constructed with any config, then executeSwarmTasks called on it
NextConfig ==
    \/ \E passed \in PassedConfigs : NewSwarm(passed)
    \/ \E ts \in ShuffledTaskLists : ExecuteSwarmTasks(ts)
    \/ \E id \in TaskIds, shape \in ConcShapes, e \in ConcTimes : ChatSettles(id, shape, e)
    \/ \E id \in TaskIds : TimerFires(id)
    \/ ExecutorResume
    \/ ExecutorReturns

SpecConfig == Init /\ [][NextConfig]_vars

\* executeSwarmTasks called twice on its own with the same task list
NextCompared ==
    \/ \E r \in RunIds : RunExecutes(r, ComparedTaskList)
    \/ \E r \in RunIds, id \in TaskIds, shape \in ConcShapes, e \in ConcTimes :
            RunChatSettles(r, id, shape, e)
    \/ \E r \in RunIds, id \in TaskIds : RunTimerFires(r, id)
    \/ \E r \in RunIds : RunResumes(r)
    \/ \E r \in RunIds : RunThrows(r)
    \/ \E r \in RunIds : RunExecutorReturns(r)

SpecCompared == Init /\ [][NextCompared]_vars

\* one run of analyzeRepositorySwarm in which the promise that lost the race
\* of a task settles later
NextLate ==
    \/ \E types \in ResetRequests : AnalyzeRepositorySwarm(types)
    \/ RunSteps
    \/ \E id \in TaskIds, shape \in ChatShapes, e \in ExecTimes : LateChatSettles(id, shape, e)
    \/ \E id \in TaskIds : LateTimerFires(id)

SpecLate == Init /\ [][NextLate]_vars

\* coordinateResults called on its own with any map of results
NextCoord ==
    \/ \E flags \in ResultMaps : CoordinateResults(flags)
    \/ \E shape \in ChatShapes : SynthSettles(shape)

SpecCoord == Init /\ [][NextCoord]_vars

\* createSwarmTasks called on its own with any short list of kinds
NextBuild == \E types \in BuildRequests : CreateSwarmTasks(types)

SpecBuild == Init /\ [][NextBuild]_vars

\* one run of analyzeRepositorySwarm with resetSwarm and getSwarmMetrics
\* called at any moment
NextPoll ==
    \/ NextReset
    \/ GetSwarmMetrics

SpecPoll == Init /\ [][NextPoll]_vars

\* the steps of run r after its call, the backend answering from shapes
\* after one of times
StepsOfRun(r, shapes, times) ==
    \/ \E id \in TaskIds, shape \in shapes, e \in times : RunChatSettles(r, id, shape, e)
    \/ \E id \in TaskIds : RunTimerFires(r, id)
    \/ RunResumes(r)
    \/ RunExecutorReturns(r)
    \/ RunCoordinates(r)
    \/ \E shape \in shapes : RunSynthSettles(r, shape)
    \/ RunReturns(r)

\* overlapping runs of analyzeRepositorySwarm on one swarm
NextConc ==
    \/ \E r \in RunIds, types \in ConcRequests : RunStarts(r, types)
    \/ \E r \in RunIds : StepsOfRun(r, ConcShapes, ConcTimes)

SpecConc == Init /\ [][NextConc]_vars

\* no run is under way
RunsQuiescent ==
    \A r \in RunIds :
        /\ runs[r].pc \in {"idle", "returned", "threw"}
        /\ \A id \in TaskIds : runs[r].promises[id].state # "pending"

\* the life of a swarm: runs that follow each other, resetSwarm at any
\* moment, and the calls that build the advanced and the dependency tasks
\* (what these two calls go on to do is the matter of SpecAdvanced)
NextLife ==
    \/ \E r \in RunIds, types \in ConcRequests : RunsQuiescent /\ RunStarts(r, types)
    \/ \E r \in RunIds : StepsOfRun(r, ConcShapes, ConcTimes)
    \/ \E r \in RunIds : RunThrows(r)
    \/ PerformAdvancedIntelligence
    \/ GenerateDependencyGraph
    \/ ResetSwarm

SpecLife == Init /\ [][NextLife]_vars

\* the analyses asked of run r: the first run asks for one or two, the runs
\* after it for the architecture analysis again
BlendRequests(r) == IF r = 1 THEN ConcRequests ELSE {<<"architecture">>}

\* runs of analyzeRepositorySwarm that follow each other, the backend taking
\* any of BlendTimes to answer
NextBlend ==
    \/ \E r \in RunIds : \E types \in BlendRequests(r) : RunsQuiescent /\ RunStarts(r, types)
    \/ \E r \in RunIds : StepsOfRun(r, BlendShapes, BlendTimes)

SpecBlend == Init /\ [][NextBlend]_vars

\* performAdvancedIntelligence and generateDependencyGraph with any backend
NextAdvanced ==
    \/ PerformAdvancedIntelligence
    \/ \E id \in AdvancedIds, shape \in ChatShapes, e \in ExecTimes : AdvancedChatSettles(id, shape, e)
    \/ \E id \in AdvancedIds : AdvancedTimerFires(id)
    \/ AdvancedSummarizes
    \/ \E shape \in ChatShapes : SummarySettles(shape)
    \/ AdvancedReturns
    \/ GenerateDependencyGraph
    \/ \E shape \in ChatShapes : DependencySettles(shape)

SpecAdvanced == Init /\ [][NextAdvanced]_vars

\* the same two calls with a backend that answers with a success, with a
\* failure, or throws
NextInsight ==
    \/ PerformAdvancedIntelligence
    \/ \E id \in AdvancedIds, shape \in ShuffledShapes, e \in ConcTimes :
            AdvancedChatSettles(id, shape, e)
    \/ \E id \in AdvancedIds : AdvancedTimerFires(id)
    \/ AdvancedSummarizes
    \/ \E shape \in ShuffledShapes : SummarySettles(shape)
    \/ AdvancedReturns
    \/ GenerateDependencyGraph
    \/ \E shape \in ShuffledShapes : DependencySettles(shape)

SpecInsight == Init /\ [][NextInsight]_vars

\* completion calls of a Qwen3Client, answered with any of three status codes
StatusCodes == {200, 429, 500}

NextQwen ==
    \/ \E c \in Callers : Completion(c)
    \/ \E c \in Callers : WaiterWakes(c)
    \/ \E c \in Callers, statusCode \in StatusCodes : Responds(c, statusCode)
    \/ ClockTicks

SpecQwen == Init /\ [][NextQwen]_vars

\* The event loop runs every continuation that is ready and every started
\* timer fires; nothing makes the backend answer.
Fairness ==
    /\ WF_vars(ExecutorResume)
    /\ WF_vars(ExecutorThrows)
    /\ WF_vars(ExecutorReturns)
    /\ WF_vars(AnalyzeCoordinates)
    /\ WF_vars(AnalyzeReturns)
    /\ \A id \in TaskIds : WF_vars(TimerFires(id))

FairSpec == Spec /\ Fairness

\* The event loop runs the continuations of executeSwarmTasks that are ready
\* and every started timer fires; nothing makes the backend answer.
ExecutorFairness ==
    /\ WF_vars(ExecutorResume)
    /\ WF_vars(ExecutorReturns)
    /\ \A id \in TaskIds : WF_vars(TimerFires(id))

\* executeSwarmTasks called on its own with a backend that answers with
\* success or not at all
NextTimed ==
    \/ \E ts \in ShuffledTaskLists : ExecuteSwarmTasks(ts)
    \/ \E id \in TaskIds, shape \in ConcShapes, e \in ConcTimes : ChatSettles(id, shape, e)
    \/ \E id \in TaskIds : TimerFires(id)
    \/ ExecutorResume
    \/ ExecutorReturns

FairTimed == Init /\ [][NextTimed]_vars /\ ExecutorFairness

\* ------------------------------------------------------------------ claims
Submitted == {tasks[i].id : i \in DOMAIN tasks}

\* tasks whose executeAgentTask has started and has not terminated
InFlight == {id \in TaskIds : promises[id].state = "pending"}

ExecutorReturned == pc \in {"execDone", "synth", "coordDone", "returned"}

\* the thresholds of section 4.4 of the specification
ClaimedConfidence(s) ==
    IF s >= 4 THEN "high" ELSE IF s \in {2, 3} THEN "medium" ELSE "low"

SuccessCount == Cardinality(Successful(results))

\* C1: at every instant the number of tasks that have started and not yet
\* terminated is at most config.maxConcurrentAgents.
C1_InFlightWithinCeiling == Cardinality(InFlight) <= config.maxConcurrentAgents

\* C2: when executeSwarmTasks has returned, the map holds a result for every
\* submitted task and for nothing else.
C2_ResultForEveryTask == ExecutorReturned => DOMAIN results = Submitted

\* C3: coordinateResults starts, and the run returns, only when every
\* submitted task has terminated.
C3_CoordinationAfterTermination ==
    pc \in {"synth", "coordDone", "returned"} =>
        \A id \in Submitted : promises[id].state \in {"fulfilled", "rejected"}

\* C4: every call of analyzeRepositorySwarm eventually returns a result,
\* whatever the backend does, as long as started timers fire.
C4_RunEventuallyReturns ==
    (call.op = "analyzeRepositorySwarm") ~> (pc = "returned")

\* C5: a task ended by its timer has a failed result of the timeout kind, and
\* no task ended by the backend's answer or failure has a result of that kind.
C5_TimeoutKindDistinct ==
    \A id \in TaskIds :
        /\ promises[id].wonBy = "timer" =>
              /\ promises[id].state = "fulfilled"
              /\ ~promises[id].value.success
              /\ promises[id].value.error = TimeoutMessage
        /\ (promises[id].wonBy = "chat" /\ promises[id].state = "fulfilled") =>
              promises[id].value.error # TimeoutMessage

\* C6: when a task has failed, the run is not aborted and every other
\* submitted task has its own result in the returned map.
C6_FailureIsolated ==
    ExecutorReturned =>
        \A id \in Submitted :
            (promises[id].state = "fulfilled" /\ ~promises[id].value.success) =>
                Submitted \ {id} \subseteq DOMAIN results

\* C7: a task list that names an unregistered agent makes executeSwarmTasks
\* fail: it never returns a map.
C7_UnknownAgentAborts ==
    (\E i \in DOMAIN tasks : tasks[i].agentId \notin AgentIds) => pc # "execDone"

\* C8: analyzeRepositorySwarm with no requested kind builds no task, makes no
\* inference call, does not throw and returns the confidence 'low'.
C8_EmptyRequest ==
    (call.op = "analyzeRepositorySwarm" /\ call.analysisTypes = <<>>) =>
        /\ tasks = <<>>
        /\ chatCalls = 0
        /\ synthCalls = 0
        /\ pc # "threw"
        /\ pc \in {"coordDone", "returned"} => coordinated.confidence = "low"

C8_Witness ==
    /\ call.op = "analyzeRepositorySwarm"
    /\ call.analysisTypes = <<>>
    /\ pc = "returned"
    /\ coordinated.confidence = "low"

\* C9 as stated: the confidence of coordinateResults is given by the number
\* of successful results alone, whatever the synthesis call does.
C9_ConfidenceByCountAlone ==
    pc = "coordDone" => coordinated.confidence = ClaimedConfidence(SuccessCount)

\* C9 amended: the confidence is given by the number of successful results
\* when no result succeeded or the synthesis call succeeded; it is 'medium'
\* when some result succeeded and the synthesis call failed.
C9_ConfidenceByCountAndSynthesis ==
    pc = "coordDone" =>
        coordinated.confidence =
            IF SuccessCount = 0 \/ synthesis.kind = "ok"
            THEN ClaimedConfidence(SuccessCount) ELSE "medium"

C9_Witness ==
    /\ pc = "coordDone"
    /\ Cardinality(DOMAIN results) = 6
    /\ SuccessCount = 5
    /\ synthesis.kind = "throw"
    /\ coordinated.confidence = "medium"

\* C10 as stated: four results of which exactly one is successful give the
\* confidence 'medium'.
C10_OneOfFourIsMedium ==
    (pc = "coordDone" /\ Cardinality(DOMAIN results) = 4 /\ SuccessCount = 1) =>
        coordinated.confidence = "medium"

\* C10 amended: four results of which exactly one is successful give 'low'
\* when the synthesis call succeeds and 'medium' when it fails.
C10_OneOfFourByCountAndSynthesis ==
    (pc = "coordDone" /\ Cardinality(DOMAIN results) = 4 /\ SuccessCount = 1) =>
        coordinated.confidence = IF synthesis.kind = "ok" THEN "low" ELSE "medium"

C10_Witness ==
    /\ pc = "coordDone"
    /\ Cardinality(DOMAIN results) = 4
    /\ SuccessCount = 1
    /\ synthesis.kind = "ok"
    /\ coordinated.confidence = "low"

\* C11: when no result of the map is successful (the empty map included),
\* coordinateResults returns the confidence 'low' and makes no call to the
\* inference backend.
C11_NoSuccessNoSynthesis ==
    (call.op = "coordinateResults" /\ Successful(results) = {}) =>
        /\ synthCalls = 0
        /\ pc = "coordDone"
        /\ coordinated.confidence = "low"

C11_Witness ==
    /\ call.op = "coordinateResults"
    /\ Cardinality(DOMAIN results) = 3
    /\ Successful(results) = {}
    /\ pc = "coordDone"
    /\ coordinated.confidence = "low"

\* C12: a run whose map holds at least one successful result makes exactly
\* one synthesis call, and no run ever makes a second one, whatever the call
\* settles with.
C12_ExactlyOneSynthesisCall ==
    /\ synthCalls <= 1
    /\ (pc \in {"synth", "coordDone", "returned"} /\ Successful(results) # {}) =>
            synthCalls = 1

C12_Witness ==
    /\ call.op = "analyzeRepositorySwarm"
    /\ pc = "returned"
    /\ Successful(results) # {}
    /\ synthesis.kind = "err"
    /\ synthCalls = 1

\* C13: when the synthesis call fails (success = false, a throw, or a success
\* without content) coordinateResults returns the fallback with confidence
\* 'medium' and a note, and analyzeRepositorySwarm goes on to return.
C13_SynthesisFailureFallsBack ==
    synthesis.kind \in {"err", "throw", "nodata"} =>
        /\ pc \in {"coordDone", "returned"}
        /\ coordinated.confidence = "medium"
        /\ "note" \in DOMAIN coordinated
        /\ pc = "coordDone" => ENABLED AnalyzeReturns

C13_Witness ==
    /\ call.op = "analyzeRepositorySwarm"
    /\ synthesis.kind = "nodata"
    /\ pc = "returned"
    /\ coordinated.confidence = "medium"

\* the submitted tasks of agent a, and those of them that terminated with
\* success = true, with success = false
TasksOf(a) == {id \in Submitted : TaskById(id).agentId = a}

CompletedOf(a) ==
    {id \in TasksOf(a) : promises[id].state = "fulfilled" /\ promises[id].value.success}

FailedOf(a) ==
    {id \in TasksOf(a) : promises[id].state = "fulfilled" /\ ~promises[id].value.success}

\* tasksCompleted / (tasksCompleted + tasksFailed) * 100, and 100 before any task
ExpectedSuccessRate(a) ==
    LET c == Cardinality(CompletedOf(a))
        f == Cardinality(FailedOf(a))
    IN  IF c + f = 0 THEN 100 ELSE (100 * c) \div (c + f)

\* C14: after every task termination the success rate of each agent (in its
\* agent record or in its efficiency entry) is completed / (completed + failed)
\* * 100, so it is below 100 once a task of the agent failed or timed out.
C14_SuccessRateFollowsOutcomes ==
    \A a \in AgentIds :
        \/ agents[a].successRate = ExpectedSuccessRate(a)
        \/ swarmMetrics.agentEfficiency[a].successRate = ExpectedSuccessRate(a)

\* C15: for every agent, tasksCompleted (in its agent record or in its
\* efficiency entry) is the number of its terminated tasks with success = true.
C15_CompletedCountsSuccesses ==
    \A a \in AgentIds :
        \/ agents[a].tasksCompleted = Cardinality(CompletedOf(a))
        \/ swarmMetrics.agentEfficiency[a].tasksCompleted = Cardinality(CompletedOf(a))

\* the runs that have been called, and the tasks of agent a in all of them
StartedRuns == {r \in RunIds : runs[r].pc # "idle"}

RunTasksOf(r, a) == {i \in DOMAIN runs[r].tasks : runs[r].tasks[i].agentId = a}

AllTasksOf(a) == UNION {{<<r, i>> : i \in RunTasksOf(r, a)} : r \in StartedRuns}

\* every task of agent a in run r has ended with success = true
SucceededIn(r, a) ==
    \A i \in RunTasksOf(r, a) :
        LET p == runs[r].promises[runs[r].tasks[i].id]
        IN  p.state = "fulfilled" /\ p.value.success

\* C16: when N overlapping runs have all returned and the inference calls of
\* all their tasks for one agent have succeeded, that agent's tasksCompleted
\* (agent record and efficiency entry) is the number of those tasks, N * M
\* for M tasks per run, whatever the order of the completions.
C16_NoLostUpdate ==
    \A a \in AgentIds :
        (/\ StartedRuns # {}
         /\ \A r \in StartedRuns : runs[r].pc = "returned" /\ SucceededIn(r, a)) =>
            /\ agents[a].tasksCompleted = Cardinality(AllTasksOf(a))
            /\ swarmMetrics.agentEfficiency[a].tasksCompleted = Cardinality(AllTasksOf(a))

C16_Witness ==
    /\ \A r \in RunIds : runs[r].pc = "returned" /\ SucceededIn(r, "architect")
    /\ Cardinality(AllTasksOf("architect")) = Cardinality(RunIds)
    /\ agents["architect"].tasksCompleted = Cardinality(RunIds)

\* the metrics of the agent records
AgentMetricsOf(ag) ==
    [a \in DOMAIN ag |->
        <<ag[a].tasksCompleted, ag[a].averageResponseTime, ag[a].successRate>>]

\* a step in which a task of the executor terminates
TaskTerminates == \E id \in TaskIds : promises[id].state = "pending" /\ Settled(promises'[id])

\* C17: per-agent metrics and swarm totals change only in a step in which a
\* task of the executor terminates.
C17_MetricsChangeOnlyAtTermination ==
    [][(AgentMetricsOf(agents') # AgentMetricsOf(agents) \/ swarmMetrics' # swarmMetrics) =>
          TaskTerminates]_vars

\* C18: a call of getSwarmMetrics changes nothing of the swarm, and the
\* values the holder of the returned object reads in it (agent records,
\* efficiency entries, totals) are not changed by a task that terminates later.
C18_SnapshotKeepsItsValues ==
    [][/\ (~snapshot.taken /\ snapshot'.taken) =>
              UNCHANGED <<config, agents, swarmMetrics, pc, call, tasks, cursor, activeTasks,
                          promises, racing, results, synthesis, coordinated, runs>>
       /\ (snapshot.taken /\ TaskTerminates) =>
              SnapshotView(snapshot', swarmMetrics', agents')
                  = SnapshotView(snapshot, swarmMetrics, agents)]_vars

\* the kinds section 4.1 of the specification knows, their task types and priorities
KnownKinds ==
    {"architecture", "security", "performance", "quality", "testing", "documentation"}

ClaimedType(kind) ==
    CASE kind = "architecture" -> "architecture-analysis"
      [] kind = "security" -> "security-analysis"
      [] kind = "performance" -> "performance-analysis"
      [] kind = "quality" -> "quality-analysis"
      [] kind = "testing" -> "testing-analysis"
      [] kind = "documentation" -> "documentation-analysis"

ClaimedPriority(kind) ==
    IF kind \in {"architecture", "security"} THEN "high"
    ELSE IF kind \in {"performance", "quality"} THEN "medium" ELSE "low"

\* the kinds a request asks for: all six for 'comprehensive'
WantedKinds(req) ==
    IF Includes(req, "comprehensive") THEN KnownKinds ELSE Range(req) \cap KnownKinds

\* C19: createSwarmTasks emits exactly one task for each distinct requested
\* known kind (all six for 'comprehensive'), nothing for any other kind, no
\* kind twice, each task with the priority of its kind.
C19_OneTaskPerRequestedKind ==
    pc = "built" =>
        /\ Len(tasks) = Cardinality(WantedKinds(call.analysisTypes))
        /\ \A k \in WantedKinds(call.analysisTypes) :
              \E i \in DOMAIN tasks :
                  /\ tasks[i].type = ClaimedType(k)
                  /\ tasks[i].priority = ClaimedPriority(k)
                  /\ \A j \in DOMAIN tasks : tasks[j].type = ClaimedType(k) => j = i

C19_Witness ==
    /\ pc = "built"
    /\ call.analysisTypes = <<"security", "security">>
    /\ Len(tasks) = 1
    /\ tasks[1].priority = "high"

\* every task a builder has built
BuiltTasks ==
    Range(tasks) \cup UNION {Range(runs[r].tasks) : r \in RunIds}
        \cup Range(advanced.tasks) \cup Range(dependency.tasks)

\* C20: whatever runs and resets came before, the agentId of every task
\* built by createSwarmTasks, performAdvancedIntelligence or
\* generateDependencyGraph is the id of an agent of the registry.
C20_TasksNameRegisteredAgents ==
    \A t \in BuiltTasks : t.agentId \in DOMAIN agents

\* a run has returned, resetSwarm has been called, and each of the three
\* builders has built its tasks
C20_Witness ==
    /\ runs[1].pc = "returned"
    /\ DOMAIN swarmMetrics.agentEfficiency = {}
    /\ runs[2].tasks # <<>>
    /\ advanced.tasks # <<>>
    /\ dependency.tasks # <<>>

\* the order of priorities of section 4.2 of the specification
HigherPriority(p, q) ==
    <<p, q>> \in {<<"high", "medium">>, <<"high", "low">>, <<"medium", "low">>}

\* the place of task id in the array the for loop of executeSwarmTasks walks
StartPosition(id) == CHOOSE i \in DOMAIN tasks : tasks[i].id = id

Started(id) == promises[id].state # "unstarted"

\* C21: executeSwarmTasks starts the submitted tasks in priority order: a
\* task of strictly higher priority is started before one of lower priority,
\* and of two tasks of equal priority the one the caller's list held first is
\* started first.
C21_StartedInPriorityOrder ==
    call.op = "executeSwarmTasks" =>
        \A i, j \in DOMAIN call.tasks :
            LET a == call.tasks[i]
                b == call.tasks[j]
            IN  (HigherPriority(a.priority, b.priority)
                    \/ (a.priority = b.priority /\ i < j)) =>
                    /\ StartPosition(a.id) < StartPosition(b.id)
                    /\ Started(b.id) => Started(a.id)

\* the list medium, high, high is executed one task at a time
C21_Witness ==
    /\ call.op = "executeSwarmTasks"
    /\ call.tasks = <<TaskFor("performance"), TaskFor("security"), TaskFor("architecture")>>
    /\ config.maxConcurrentAgents = 1
    /\ Started("sec") /\ Started("arch") /\ ~Started("perf")

\* C22: with no more tasks than the ceiling, executeSwarmTasks starts all of
\* them in the call itself, before any of them has terminated, and never
\* waits for a termination to start one.
C22_AllAdmittedAtOnce ==
    (call.op = "executeSwarmTasks" /\ Len(call.tasks) <= config.maxConcurrentAgents) =>
        /\ \A i \in DOMAIN call.tasks : Started(call.tasks[i].id)
        /\ cursor = Len(call.tasks)
        /\ chatCalls = Len(call.tasks)
        /\ pc # "race"

\* as many tasks as the ceiling allows, all in flight
C22_Witness ==
    /\ call.op = "executeSwarmTasks"
    /\ Len(call.tasks) = config.maxConcurrentAgents
    /\ Len(call.tasks) = MaxC
    /\ \A i \in DOMAIN call.tasks : promises[call.tasks[i].id].state = "pending"

\* C23: nothing but its own timeout discards the outcome of a started task:
\* once executeSwarmTasks has ended, every task that was ended by the answer
\* or the failure of its inference call has its result in the returned map,
\* also when resetSwarm was called or a sibling task completed meanwhile.
C23_OnlyTimeoutDiscards ==
    (ExecutorReturned \/ pc = "threw") =>
        \A id \in TaskIds : promises[id].wonBy = "chat" => id \in DOMAIN results

\* a field of a task result holds something
Present(x) == x \notin {Undefined, Null}

\* C24: in every result executeAgentTask produces, the output is present
\* exactly when success is true and the error is present exactly when success
\* is false, whatever the backend answered.
C24_OutputIffSuccess ==
    \A id \in TaskIds :
        promises[id].state = "fulfilled" =>
            /\ Present(promises[id].value.result) <=> promises[id].value.success
            /\ Present(promises[id].value.error) <=> ~promises[id].value.success

\* how a started task ended: by what, and with which success and error
OutcomeOf(p) ==
    <<p.state, p.wonBy,
      IF p.state = "fulfilled" THEN <<p.value.success, p.value.error>> ELSE <<p.reason>>>>

RunEnded(r) == runs[r].pc \in {"execDone", "threw"}

\* every task run r has started has ended
RunSettled(r) == \A id \in TaskIds : runs[r].promises[id].state # "pending"

\* the tasks both runs have started ended in the same way
SameOutcomes(r, q) ==
    \A id \in TaskIds :
        (runs[r].promises[id].state # "unstarted" /\ runs[q].promises[id].state # "unstarted") =>
            OutcomeOf(runs[r].promises[id]) = OutcomeOf(runs[q].promises[id])

\* C25: two executions of the same task list in which every task has the
\* same outcome end in the same way and return maps with the same keys and the
\* same success and error in every entry, whatever the order of the completions.
C25_MapIndependentOfOrder ==
    \A r, q \in RunIds :
        (/\ RunEnded(r) /\ RunEnded(q)
         /\ RunSettled(r) /\ RunSettled(q)
         /\ runs[r].tasks = runs[q].tasks
         /\ SameOutcomes(r, q)) =>
            /\ runs[r].pc = runs[q].pc
            /\ DOMAIN runs[r].results = DOMAIN runs[q].results
            /\ \A id \in DOMAIN runs[r].results \cap DOMAIN runs[q].results :
                  /\ runs[r].results[id].success = runs[q].results[id].success
                  /\ runs[r].results[id].error = runs[q].results[id].error

\* C26: executeSwarmTasks makes one inference call for each task it takes and
\* never another one, whatever the task ends with; when it has returned it has
\* made exactly one call per submitted task; and the tasks it works on are the
\* submitted ones with all their fields.
C26_EachTaskCalledOnce ==
    call.op = "executeSwarmTasks" =>
        /\ chatCalls = cursor
        /\ chatCalls = Cardinality({id \in TaskIds : Started(id)})
        /\ pc = "execDone" => chatCalls = Len(call.tasks)
        /\ Len(tasks) = Len(call.tasks)
        /\ Range(tasks) = Range(call.tasks)

\* three tasks ended by a failure, an exception and a timeout, and the call returned
C26_Witness ==
    /\ call.op = "executeSwarmTasks"
    /\ pc = "execDone"
    /\ Len(call.tasks) = 3
    /\ chatCalls = 3
    /\ \E a, b, c \in TaskIds :
          /\ promises[a].wonBy = "timer"
          /\ promises[b].wonBy = "chat" /\ promises[b].state = "fulfilled"
          /\ promises[b].value.error = "Service unavailable"
          /\ promises[c].wonBy = "chat" /\ promises[c].state = "fulfilled"
          /\ ~promises[c].value.success /\ promises[c].value.error = Undefined

\* no task of agent a has been started
RanNoTask(a) == \A i \in DOMAIN tasks : tasks[i].agentId = a => ~Started(tasks[i].id)

\* C27: an agent that has run no task has the success rate 100 in its agent
\* record and in its efficiency entry, after construction and after resetSwarm.
C27_IdleAgentHasFullRate ==
    \A a \in AgentIds :
        RanNoTask(a) =>
            /\ agents[a].successRate = 100
            /\ a \in DOMAIN swarmMetrics.agentEfficiency
            /\ swarmMetrics.agentEfficiency[a].successRate = 100

\* C28: the promise that loses the race between the inference call and the
\* timer has no effect: when it settles, no task result, no result map, no
\* agent record and no swarm metric changes, and the run stays where it is.
C28_LoserHasNoEffect ==
    [][losersSettled' # losersSettled =>
          UNCHANGED <<promises, results, racing, agents, swarmMetrics, pc, coordinated>>]_vars

\* one task was ended by its timer and its call answered later; another was
\* ended by its call and its timer fired later; the run has returned
C28_Witness ==
    /\ pc = "returned"
    /\ \E a, b \in losersSettled : promises[a].wonBy = "timer" /\ promises[b].wonBy = "chat"

\* C29: every call of executeSwarmTasks eventually returns, also when no
\* inference call ever answers, as long as the started timers fire; and while
\* it waits for the race of the active tasks none of them has already ended.
C29_ExecutorEventuallyReturns ==
    /\ (call.op = "executeSwarmTasks") ~> (pc = "execDone")
    /\ [](pc = "race" /\ racing.state = "pending" =>
            \A i \in DOMAIN activeTasks : promises[activeTasks[i]].state = "pending")

\* more tasks than the ceiling, each ended by its timer, and the call returned
C29_Witness ==
    /\ call.op = "executeSwarmTasks"
    /\ Len(call.tasks) = 3
    /\ \A i \in DOMAIN call.tasks : promises[call.tasks[i].id].wonBy = "timer"
    /\ pc = "execDone"

\* round(completed / total * 100), and 100 when there is no task
ClaimedEfficiency(completed, total) ==
    IF total = 0 THEN 100 ELSE (200 * completed + total) \div (2 * total)

\* C30: when a run of analyzeRepositorySwarm on a new swarm has completed,
\* totalTasks is completedTasks + failedTasks and is the number of tasks the
\* run submitted, and swarmEfficiency is round(completedTasks / totalTasks *
\* 100), within 0..100, and 100 when totalTasks is 0.
C30_TotalsCountSubmittedTasks ==
    pc = "returned" =>
        /\ swarmMetrics.totalTasks = swarmMetrics.completedTasks + swarmMetrics.failedTasks
        /\ swarmMetrics.totalTasks = Len(tasks)
        /\ getSwarmMetrics(swarmMetrics, agents).swarmEfficiency
              = ClaimedEfficiency(swarmMetrics.completedTasks, swarmMetrics.totalTasks)
        /\ getSwarmMetrics(swarmMetrics, agents).swarmEfficiency \in 0..100

DistinctIds(ts) == \A i, j \in DOMAIN ts : ts[i].id = ts[j].id => i = j

\* the promises a run's Promise.allSettled found fulfilled
FulfilledActive(r) ==
    {i \in DOMAIN runs[r].activeTasks :
        runs[r].promises[runs[r].activeTasks[i]].state = "fulfilled"}

\* C31: the tasks one call of createSwarmTasks builds have pairwise distinct
\* ids, and so have the tasks of one call of performAdvancedIntelligence; the
\* result map of a run has one entry for each fulfilled promise it was built
\* from, none overwriting another.
C31_TaskIdsDistinct ==
    /\ \A r \in RunIds : DistinctIds(runs[r].tasks)
    /\ DistinctIds(advanced.tasks)
    /\ \A r \in RunIds :
          runs[r].pc \in {"execDone", "synth", "coordDone", "returned"} =>
              Cardinality(DOMAIN runs[r].results) = Cardinality(FulfilledActive(r))

\* a run of two tasks has returned both results, and the advanced tasks are built
C31_Witness ==
    /\ \E r \in RunIds : runs[r].pc = "returned" /\ Cardinality(DOMAIN runs[r].results) = 2
    /\ Len(advanced.tasks) = 4

\* the execution time with which the inference call of task id of run r
\* resolved, 0 when the task timed out, threw, or has not ended
ResolvedTime(r, id) ==
    LET p == runs[r].promises[id]
    IN  IF p.state = "fulfilled" /\ p.wonBy = "chat" /\ p.value.result # Undefined
        THEN p.value.executionTime ELSE 0

\* the task ids of agent a in run r
RunIdsOf(r, a) == {runs[r].tasks[i].id : i \in RunTasksOf(r, a)}

\* round((previous + t) / 2) over the runs 1..n in their order, from 0
RECURSIVE BlendUpTo(_, _)
BlendUpTo(a, n) ==
    IF n = 0 THEN 0
    ELSE LET previous == BlendUpTo(a, n - 1)
             times == {ResolvedTime(n, id) : id \in RunIdsOf(n, a)} \ {0}
         IN  IF times = {} THEN previous
             ELSE LET t == CHOOSE x \in times : TRUE
                  IN  (previous + t + 1) \div 2

\* the execution times of the answered calls of agent a
ObservedTimes(a) == UNION {{ResolvedTime(r, id) : id \in RunIdsOf(r, a)} : r \in RunIds} \ {0}

\* C32: the averageResponseTime of an agent is the running blend of the
\* execution times of its answered calls: round((previous + t) / 2) for each
\* of them in turn, from 0; a task that times out or throws leaves it as it
\* is; and it is never above the largest of these execution times.
C32_AverageIsRunningBlend ==
    \A a \in AgentIds :
        /\ agents[a].averageResponseTime = BlendUpTo(a, MaxRuns)
        /\ \A m \in ObservedTimes(a) \cup {0} :
              (\A t \in ObservedTimes(a) : t <= m) => agents[a].averageResponseTime <= m

\* two answered calls of the architect with different times, and a third
\* task that timed out
C32_Witness ==
    /\ ResolvedTime(1, "arch") = 3
    /\ ResolvedTime(2, "arch") = 1
    /\ runs[1].promises["sec"].wonBy = "timer"
    /\ agents["architect"].averageResponseTime = 2
    /\ agents["security"].averageResponseTime = 0

\* agent a has a task in flight: started by some run and not yet ended
HasTaskInFlight(a) ==
    \E r \in RunIds : \E id \in RunIdsOf(r, a) : runs[r].promises[id].state = "pending"

\* C33: an agent's status is 'active' exactly when at least one of its tasks
\* is in flight, also when several of its tasks run at once in overlapping
\* runs; so the number of active agents is the number of agents with a task
\* in flight.
C33_ActiveIffInFlight ==
    /\ \A a \in AgentIds : agents[a].status = "active" <=> HasTaskInFlight(a)
    /\ Cardinality({a \in AgentIds : agents[a].status = "active"}) =
          Cardinality({a \in AgentIds : HasTaskInFlight(a)})

\* C34: resetSwarm restores the metrics state of a freshly constructed
\* swarm: every registered agent idle with zero counters, the swarm totals
\* zero, and a zeroed agentEfficiency entry for every registered agent.
C34_ResetRestoresFreshState ==
    [][ResetSwarm => (agents' = initializeAgents /\ swarmMetrics' = InitialSwarmMetrics)]_vars

\* C35: the effective configuration has maxConcurrentAgents >= 1 and
\* taskTimeout > 0, a missing or zero value handed to the constructor being
\* replaced by the default; so the executor never waits for a race among no
\* promises with tasks left to admit.
C35_EffectiveConfigAdmitsTasks ==
    /\ config.maxConcurrentAgents >= 1
    /\ config.taskTimeout > 0
    /\ ~(pc = "race" /\ activeTasks = <<>>)

\* the advanced tasks that ended with success = true
AdvancedSucceeded ==
    {id \in AdvancedIds :
        advanced.promises[id].state = "fulfilled" /\ advanced.promises[id].value.success}

\* C36: performAdvancedIntelligence reports its confidence from the number s
\* of its four tasks that ended with success = true: 'high' only if s >= 3,
\* 'medium' only if s = 2, and 'low' if s <= 1.
C36_ConfidenceCountsSuccesses ==
    advanced.pc = "returned" =>
        LET s == Cardinality(AdvancedSucceeded)
        IN  /\ advanced.confidence = "high" => s >= 3
            /\ advanced.confidence = "medium" => s = 2
            /\ s <= 1 => advanced.confidence = "low"

\* C37: generateDependencyGraph and generateIntelligenceSummary return a
\* defined object for every outcome of the backend call, never undefined.
C37_NeverReturnsUndefined ==
    /\ dependency.pc = "returned" => dependency.result.defined
    /\ advanced.pc \in {"summarized", "returned"} => advanced.summary.defined

\* line 803: the limit of each key
LimitOf(k) == IF k = "primary_key" THEN PrimaryLimit ELSE BackupLimit

\* C38: enforceRateLimit admits for each key at most that key's limit of
\* requests within one window (the admissions counted since the window of
\* the key began all lie within Window of its start), whatever the
\* interleaving of completion calls, waiting callers and key rotations.
C38_AdmissionsWithinLimit ==
    \A k \in Keys : qwen3.rateLimiter[k].requests <= LimitOf(k)

\* C39: after a 429 for a request sent with key k, the next completion call
\* that starts uses the other key.
C39_NextRequestUsesOtherKey ==
    [][\A c \in Callers :
          (qwen3.calls[c].pc = "idle" /\ qwen3'.calls[c].pc # "idle" /\ qwen3.last429 # "none")
              => qwen3'.calls[c].apiKey # qwen3.last429]_vars

====
